---- MODULE Spec2Model ----
(***************************************************************************)
(* State-machine model of the log watcher of src/src/main/main.ts: the     *)
(* tail cursor, the polling interval, the non-PVP correlation buffer with  *)
(* its delay timers, the preflight of startWatching and the connection     *)
(* status sent to the renderer.                                            *)
(*                                                                         *)
(* Time is a discrete clock in milliseconds that advances one polling      *)
(* period at a time.  Timer and interval callbacks that are due run before *)
(* the clock advances again (the event loop is never busy for a whole      *)
(* period); awaited I/O (fetch, the read stream) may take any number of    *)
(* periods.  Callbacks that are due at the same clock value run in any     *)
(* order.                                                                  *)
(*                                                                         *)
(* The log file is a sequence of lines of LineLen bytes each (the last     *)
(* byte is the line feed); the game appends whole lines.                   *)
(***************************************************************************)
EXTENDS Integers, Sequences, FiniteSets, TLC

\* ------------------------------------------------------------- bounds
MaxStarts == 2     \* calls of startWatching in one run
MaxLines  == 2     \* lines ever appended to the log file
MaxSteps  == 4     \* polling periods the clock runs for
MaxBodies == 2     \* poll tick bodies suspended on I/O at the same time
LineLen   == 3     \* bytes of one log line, line feed included
WatchStarts == 1   \* startWatching calls in the one-session specification
LifeLines == 1     \* lines appended in the life-cycle specification
MaxTail   == 3     \* characters after "You have slain" in the parse specification
MaxName   == 3     \* characters of an NPC name in the key specification

\* -------------------------------------------------- program constants
BUFFER_MS == 2000
POLL_MS   == 1000

NoTimer == 0       \* watcherTimer = null
NoPath  == "null"  \* logPath = null
ThePath == "log"   \* settings.logPath.trim()

\* ------------------------------------------------------------ strings
\* A string is a sequence of one-character strings.
IsSpace(c) == c \in {" ", "\t"}

toLowerCase(c) ==
    CASE c = "G" -> "g"
      [] c = "B" -> "b"
      [] OTHER   -> c

RECURSIVE StripLeadingHashes(_)
\* s.replace(/^#+/, "")
StripLeadingHashes(s) ==
    IF s # <<>> /\ Head(s) = "#" THEN StripLeadingHashes(Tail(s)) ELSE s

\* s.replace(/_/g, " ")
UnderscoresToSpaces(s) == [i \in DOMAIN s |-> IF s[i] = "_" THEN " " ELSE s[i]]

LowerCase(s) == [i \in DOMAIN s |-> toLowerCase(s[i])]

RECURSIVE TrimStart(_)
TrimStart(s) == IF s # <<>> /\ IsSpace(Head(s)) THEN TrimStart(Tail(s)) ELSE s

RECURSIVE TrimEnd(_)
TrimEnd(s) ==
    IF s # <<>> /\ IsSpace(s[Len(s)]) THEN TrimEnd(SubSeq(s, 1, Len(s) - 1)) ELSE s

\* s.trim()
Trim(s) == TrimEnd(TrimStart(s))

RECURSIVE CollapseSpaces(_)
\* s.replace(/\s+/g, " ")
CollapseSpaces(s) ==
    IF s = <<>> THEN <<>>
    ELSE IF IsSpace(Head(s))
         THEN <<" ">> \o CollapseSpaces(TrimStart(s))
         ELSE <<Head(s)>> \o CollapseSpaces(Tail(s))

normalizeForDedup(name) ==
    CollapseSpaces(Trim(LowerCase(UnderscoresToSpaces(StripLeadingHashes(name)))))

\* ------------------------------------------------------- the log file
\* The lines the game writes in this model: first-person and PVP kill lines
\* for two NPCs (one of them spelled in two ways), and the earthquake
\* announcement.
LineKinds ==
    { [type |-> "slain", npc |-> <<"G">>],
      [type |-> "pvp",   npc |-> <<"#", "g">>],
      [type |-> "slain", npc |-> <<"b">>],
      [type |-> "eq",    npc |-> <<>>] }

\* A line both parsers match: the earthquake pattern is not anchored, so a
\* first-person kill line whose NPC text holds an announcement matches it too
\* ("You have slain <text with 'The next earthquake will begin in 5 Seconds'>").
\* Its NPC text stands for any name; here it shares the key of "G".
BothLine == [type |-> "both", npc |-> <<"G">>]

\* What a read yields for a line it holds only a part of.
Fragment == [type |-> "frag", npc |-> <<>>]

FileSize(f) == Len(f) * LineLen

Min(a, b) == IF a < b THEN a ELSE b

VARIABLES
    file,           \* the lines of the log file
    now,            \* the clock, in ms
    watcherTimer,   \* main.ts:40, NoTimer or the interval id
    intervals,      \* the armed setInterval tasks (ids)
    due,            \* the armed intervals whose callback is due at `now`
    logPosition,    \* main.ts:41
    logPath,        \* main.ts:42
    pendingNonPvp,  \* main.ts:43, key -> [match, timeout]
    timers,         \* the armed correlation setTimeout tasks
    starts,         \* startWatching calls suspended on a preflight fetch,
                    \* each with the size its statSync returned
    nStarts,        \* startWatching calls made so far
    bodies,         \* poll tick bodies suspended on the stream or on a report
    inflight,       \* reports sent by timer callbacks, response outstanding
    status,         \* the last connection-status sent to the renderer
    stoppedFence,   \* stopWatching was called and startWatching not since
    log,            \* history: events handed to the correlator, POSTs, stops
    reads           \* history: the byte ranges the ticks have read

vars == <<file, now, watcherTimer, intervals, due, logPosition, logPath,
          pendingNonPvp, timers, starts, nStarts, bodies, inflight, status,
          stoppedFence, log, reads>>

EmptyMap == [k \in {} |-> 0]
MapSet(m, k, v) == [x \in (DOMAIN m) \cup {k} |-> IF x = k THEN v ELSE m[x]]
MapDelete(m, k) == [x \in (DOMAIN m) \ {k} |-> m[x]]

Init ==
    /\ file = <<>>
    /\ now = 0
    /\ watcherTimer = NoTimer
    /\ intervals = {}
    /\ due = {}
    /\ logPosition = 0
    /\ logPath = NoPath
    /\ pendingNonPvp = EmptyMap
    /\ timers = {}
    /\ starts = {}
    /\ nStarts = 0
    /\ bodies = {}
    /\ inflight = 0
    /\ status = "stopped"
    /\ stoppedFence = FALSE
    /\ log = <<>>
    /\ reads = {}

\* The game appends one whole line to the log file.
AppendLine(l) ==
    /\ Len(file) < MaxLines
    /\ file' = Append(file, l)
    /\ UNCHANGED <<now, watcherTimer, intervals, due, logPosition, logPath,
                   pendingNonPvp, timers, starts, nStarts, bodies, inflight,
                   status, stoppedFence, log, reads>>

\* ------------------------------------------------------ stopWatching
\* The timeouts held by the entries of the pending map.
PendingTimeouts(p) == {p[k].timeout : k \in DOMAIN p}

NoMatch == [line |-> 0, npcName |-> <<>>, pvp |-> 0, killedAt |-> 0, src |-> <<0, 0>>]

LogEntry(op, m) == [op |-> op, m |-> m, at |-> now]

\* Mutant of stopWatching: the pending map is cleared without clearTimeout on
\* its entries.
stopWatching_KeepTimeouts ==
    /\ intervals' = intervals \ {watcherTimer}
    /\ due' = due \ {watcherTimer}
    /\ watcherTimer' = NoTimer
    /\ timers' = timers
    /\ pendingNonPvp' = EmptyMap
    /\ logPath' = NoPath
    /\ log' = IF DOMAIN pendingNonPvp = {} THEN log
              ELSE Append(log, LogEntry("stop", NoMatch))

\* The body of stopWatching but for its signal, which the caller's status'
\* accounts for (startWatching may send another one right after it).
stopWatching ==
    /\ intervals' = intervals \ {watcherTimer}
    /\ due' = due \ {watcherTimer}
    /\ watcherTimer' = NoTimer
    /\ timers' = timers \ PendingTimeouts(pendingNonPvp)
    /\ pendingNonPvp' = EmptyMap
    /\ logPath' = NoPath
    /\ log' = IF DOMAIN pendingNonPvp = {} THEN log
              ELSE Append(log, LogEntry("stop", NoMatch))

\* Mutant of StopWatching: the call also resets the cursor to zero.
StopWatching_ResetsCursor ==
    /\ stopWatching
    /\ status' = "stopped"
    /\ stoppedFence' = TRUE
    /\ logPosition' = 0
    /\ UNCHANGED <<file, now, starts, nStarts, bodies, inflight, reads>>

\* The stop-watching IPC call, or the window being closed.
StopWatching ==
    /\ stopWatching
    /\ status' = "stopped"
    /\ stoppedFence' = TRUE
    /\ UNCHANGED <<file, now, logPosition, starts, nStarts, bodies, inflight, reads>>

\* ----------------------------------------------------- startWatching
\* The synchronous part of startWatching, up to the health fetch: cfgOk says
\* whether the three settings are non-empty, statOk whether statSync succeeds.
StartWatching(cfgOk, statOk) ==
    /\ nStarts < MaxStarts
    /\ nStarts' = nStarts + 1
    /\ stopWatching
    /\ stoppedFence' = FALSE
    /\ IF ~cfgOk
       THEN /\ status' = "missing_config"
            /\ UNCHANGED <<logPosition, starts>>
       ELSE IF ~statOk
       THEN /\ status' = "file_not_found"
            /\ UNCHANGED <<logPosition, starts>>
       ELSE /\ logPosition' = FileSize(file)
            /\ starts' = starts \cup {[id |-> nStarts + 1, pc |-> "health",
                                      size |-> FileSize(file)]}
            /\ status' = "stopped"
    /\ UNCHANGED <<file, now, bodies, inflight, reads>>

\* The health fetch settles: "ok" (2xx), "bad" (another status) or "throw"
\* (transport failure, or the abort after 8 s).
HealthResponse(outcome) ==
    \E s \in starts :
        /\ s.pc = "health"
        /\ IF outcome = "ok"
           THEN /\ starts' = (starts \ {s}) \cup {[s EXCEPT !.pc = "cred"]}
                /\ UNCHANGED status
           ELSE /\ starts' = starts \ {s}
                /\ status' = "server_offline"
        /\ UNCHANGED <<file, now, watcherTimer, intervals, due, logPosition,
                       logPath, pendingNonPvp, timers, nStarts, bodies,
                       inflight, stoppedFence, log, reads>>

\* The credential fetch settles: "ok", "401", "bad" or "throw".  On "ok" the
\* watched path is set, connected is sent and the interval is armed.
CredResponse(outcome) ==
    \E s \in starts :
        /\ s.pc = "cred"
        /\ starts' = starts \ {s}
        /\ IF outcome = "ok"
           THEN /\ logPath' = ThePath
                /\ status' = "connected"
                /\ intervals' = intervals \cup {s.id}
                /\ watcherTimer' = s.id
           ELSE /\ status' = (IF outcome = "401" THEN "invalid_key" ELSE "error")
                /\ UNCHANGED <<logPath, intervals, watcherTimer>>
        /\ UNCHANGED <<file, now, due, logPosition, pendingNonPvp, timers,
                       nStarts, bodies, inflight, stoppedFence, log, reads>>

\* ---------------------------------------------------------- poll tick
\* The text a read of the bytes lo..hi (inclusive) yields, as the items of
\* buffer.split(/\r?\n/) that are not blank: line j holds the bytes
\* (j-1)*LineLen .. j*LineLen-1, the last of them its line feed.  A line whose
\* text is only partly inside the range comes out as a fragment.
RangeLines(f, lo, hi) ==
    LET Touched == {j \in 1..Len(f) :
                      (j - 1) * LineLen <= hi /\ j * LineLen - 2 >= lo}
        Item(j) == IF (j - 1) * LineLen >= lo /\ j * LineLen - 2 <= hi
                   THEN [line |-> j, c |-> f[j]]
                   ELSE [line |-> j, c |-> Fragment]
        first == CHOOSE j \in Touched : \A k \in Touched : j <= k
    IN  IF Touched = {} THEN <<>>
        ELSE [i \in 1..Cardinality(Touched) |-> Item(first + i - 1)]

\* parseEarthquakeLine, on the lines of this model.
LineIsEarthquake(l) == l.type \in {"eq", "both"}

\* Whether u matches [.!]?\s*$ : an optional full stop or exclamation mark,
\* then blanks up to the end.
IsTerminator(u) ==
    \/ TrimStart(u) = <<>>
    \/ Head(u) \in {".", "!"} /\ TrimStart(Tail(u)) = <<>>

\* The npc group of slainRegex, /You have slain\s+(?<npc>.+?)[.!]?\s*$/, for
\* the text `rest` that follows "You have slain": \s+ takes the leading
\* blanks, the lazy group the shortest text that leaves a terminator.  When
\* only blanks follow, \s+ gives one back and the group is that blank.
SlainCapture(rest) ==
    LET k == Len(rest) - Len(TrimStart(rest))
        T == TrimStart(rest)
        fits == {n \in 1..Len(T) : IsTerminator(SubSeq(T, n + 1, Len(T)))}
        n == CHOOSE x \in fits : \A y \in fits : x <= y
    IN  IF k = 0 THEN [ok |-> FALSE, npc |-> <<>>]
        ELSE IF T = <<>>
        THEN IF k >= 2 THEN [ok |-> TRUE, npc |-> <<rest[k]>>]
             ELSE [ok |-> FALSE, npc |-> <<>>]
        ELSE [ok |-> TRUE, npc |-> SubSeq(T, 1, n)]

\* parseSlainLine, on the lines of this model: the match, or NoMatch for null.
\* A line of type "text" is a first-person kill line given by the text that
\* follows "You have slain"; the other kill lines are given by their group.
LineSlain(it, src) ==
    IF it.c.type = "text"
    THEN IF SlainCapture(it.c.npc).ok
         THEN [line |-> it.line, npcName |-> Trim(SlainCapture(it.c.npc).npc),
               pvp |-> 0, killedAt |-> now, src |-> src]
         ELSE NoMatch
    ELSE IF it.c.type \in {"pvp", "slain", "both"}
    THEN [line |-> it.line, npcName |-> Trim(it.c.npc),
          pvp |-> IF it.c.type = "pvp" THEN 1 ELSE 0,
          killedAt |-> now, src |-> src]
    ELSE NoMatch

\* Mutant of HandlePvp: the entry is deleted without clearTimeout.
HandlePvp_KeepTimeout(st, key, m) ==
    [pend |-> MapDelete(st.pend, key),
     tms  |-> st.tms,
     lg   |-> st.lg \o <<LogEntry("hand", m), LogEntry("post", m)>>]

\* Mutant of HandlePvp: a PVP kill of a key with a buffered entry is dropped
\* as a duplicate instead of being reported.
HandlePvp_DropDuplicate(st, key, m) ==
    [pend |-> MapDelete(st.pend, key),
     tms  |-> IF key \in DOMAIN st.pend
              THEN st.tms \ {st.pend[key].timeout} ELSE st.tms,
     lg   |-> IF key \in DOMAIN st.pend
              THEN Append(st.lg, LogEntry("hand", m))
              ELSE st.lg \o <<LogEntry("hand", m), LogEntry("post", m)>>]

\* Mutant of HandleNonPvp: the timeout is armed for the polling period
\* instead of BUFFER_MS.
HandleNonPvp_ShortDelay(st, key, m) ==
    LET timeout == [key |-> key, match |-> m, deadline |-> now + POLL_MS]
    IN  [pend |-> MapSet(st.pend, key, [match |-> m, timeout |-> timeout]),
         tms  |-> ((IF key \in DOMAIN st.pend
                    THEN st.tms \ {st.pend[key].timeout} ELSE st.tms)
                   \cup {timeout}),
         lg   |-> Append(st.lg, LogEntry("hand", m))]

\* Mutant of HandleNonPvp: the timeout of the entry it replaces is not cleared.
HandleNonPvp_KeepExisting(st, key, m) ==
    LET timeout == [key |-> key, match |-> m, deadline |-> now + BUFFER_MS]
    IN  [pend |-> MapSet(st.pend, key, [match |-> m, timeout |-> timeout]),
         tms  |-> st.tms \cup {timeout},
         lg   |-> Append(st.lg, LogEntry("hand", m))]

\* Mutant of HandleNonPvp: the new entry replaces the whole map, and the
\* timeouts of all the entries are cleared.
HandleNonPvp_ClearOthers(st, key, m) ==
    LET timeout == [key |-> key, match |-> m, deadline |-> now + BUFFER_MS]
    IN  [pend |-> MapSet(EmptyMap, key, [match |-> m, timeout |-> timeout]),
         tms  |-> (st.tms \ PendingTimeouts(st.pend)) \cup {timeout},
         lg   |-> Append(st.lg, LogEntry("hand", m))]

\* The correlator works on st = [pend, tms, lg]: the pending map, the armed
\* timeouts and the history.
\* PVP line: cancel a buffered non-PVP of the same key, report at once.
HandlePvp(st, key, m) ==
    [pend |-> MapDelete(st.pend, key),
     tms  |-> IF key \in DOMAIN st.pend
              THEN st.tms \ {st.pend[key].timeout} ELSE st.tms,
     lg   |-> st.lg \o <<LogEntry("hand", m), LogEntry("post", m)>>]

\* Non-PVP line: cancel the timeout of an entry of the same key, arm a new
\* one and store the entry.
HandleNonPvp(st, key, m) ==
    LET timeout == [key |-> key, match |-> m, deadline |-> now + BUFFER_MS]
    IN  [pend |-> MapSet(st.pend, key, [match |-> m, timeout |-> timeout]),
         tms  |-> ((IF key \in DOMAIN st.pend
                    THEN st.tms \ {st.pend[key].timeout} ELSE st.tms)
                   \cup {timeout}),
         lg   |-> Append(st.lg, LogEntry("hand", m))]

RECURSIVE ProcessLines_KillFirst(_, _, _)
\* Mutant of ProcessLines: the kill-line parse is attempted before the
\* earthquake parse.
ProcessLines_KillFirst(items, st, src) ==
    IF items = <<>>
    THEN [st |-> st, rest |-> <<>>, awaiting |-> FALSE]
    ELSE LET it == Head(items)
             m  == LineSlain(it, src)
         IN  IF m # NoMatch
             THEN IF m.pvp = 1
                  THEN [st |-> HandlePvp(st, normalizeForDedup(m.npcName), m),
                        rest |-> Tail(items), awaiting |-> TRUE]
                  ELSE ProcessLines_KillFirst(Tail(items),
                           HandleNonPvp(st, normalizeForDedup(m.npcName), m), src)
             ELSE IF LineIsEarthquake(it.c)
             THEN [st |-> [st EXCEPT !.lg = Append(st.lg,
                              LogEntry("eq", [NoMatch EXCEPT !.line = it.line,
                                                             !.src = src]))],
                   rest |-> Tail(items), awaiting |-> TRUE]
             ELSE ProcessLines_KillFirst(Tail(items), st, src)

RECURSIVE ProcessLines(_, _, _)
\* The for loop over the lines, run up to its next await: the result is the
\* correlator's state, the lines left, and whether the loop awaits a report.
ProcessLines(items, st, src) ==
    IF items = <<>>
    THEN [st |-> st, rest |-> <<>>, awaiting |-> FALSE]
    ELSE LET it == Head(items)
             m  == LineSlain(it, src)
         IN  IF LineIsEarthquake(it.c)
             THEN [st |-> [st EXCEPT !.lg = Append(st.lg,
                              LogEntry("eq", [NoMatch EXCEPT !.line = it.line,
                                                             !.src = src]))],
                   rest |-> Tail(items), awaiting |-> TRUE]
             ELSE IF m # NoMatch
             THEN IF m.pvp = 1
                  THEN [st |-> HandlePvp(st, normalizeForDedup(m.npcName), m),
                        rest |-> Tail(items), awaiting |-> TRUE]
                  ELSE ProcessLines(Tail(items),
                           HandleNonPvp(st, normalizeForDedup(m.npcName), m), src)
             ELSE ProcessLines(Tail(items), st, src)

\* The tick body b runs its loop over items until the next await or the end.
RunLoop(b, items) ==
    LET r == ProcessLines(items,
                 [pend |-> pendingNonPvp, tms |-> timers, lg |-> log],
                 <<b.iv, b.born>>)
    IN  /\ pendingNonPvp' = r.st.pend
        /\ timers' = r.st.tms
        /\ log' = r.st.lg
        /\ bodies' = IF r.awaiting
                     THEN (bodies \ {b}) \cup
                          {[b EXCEPT !.pc = "await", !.lines = r.rest]}
                     ELSE bodies \ {b}

\* The interval callback starts: it returns at once without a watched path;
\* else it stats the file (which may throw) and, when the file is larger than
\* the cursor, opens the stream and suspends on it.
IntervalFire(statOk) ==
    \E i \in due :
        /\ due' = due \ {i}
        /\ IF logPath = NoPath
           THEN UNCHANGED <<bodies, status>>
           ELSE IF ~statOk
           THEN /\ status' = "error"
                /\ UNCHANGED bodies
           ELSE IF FileSize(file) > logPosition
           THEN /\ Cardinality(bodies) < MaxBodies
                /\ bodies' = bodies \cup
                     {[iv |-> i, born |-> now, pc |-> "read",
                       start |-> logPosition, end |-> FileSize(file),
                       gen |-> nStarts, lines |-> <<>>]}
                /\ UNCHANGED status
           ELSE UNCHANGED <<bodies, status>>
        /\ UNCHANGED <<file, now, watcherTimer, intervals, logPosition, logPath,
                       pendingNonPvp, timers, starts, nStarts, inflight,
                       stoppedFence, log, reads>>

\* The stream of tick body b ends: it has read the bytes start..end, both
\* inclusive, as far as the file reaches by now.  The cursor moves to the size
\* the stat saw and the loop over the lines begins.
ReadDone ==
    \E b \in bodies :
        /\ b.pc = "read"
        /\ LET hi == Min(b.end, FileSize(file) - 1)
           IN  /\ reads' = reads \cup
                     {[lo |-> b.start, hi |-> hi, size |-> b.end, gen |-> b.gen]}
               /\ logPosition' = b.end
               /\ RunLoop(b, RangeLines(file, b.start, hi))
        /\ UNCHANGED <<file, now, watcherTimer, intervals, due, logPath, starts,
                       nStarts, inflight, status, stoppedFence>>

\* Mutant of ReadFail: the catch also cancels the interval of the tick.
ReadFail_StopsLoop ==
    \E b \in bodies :
        /\ b.pc = "read"
        /\ bodies' = bodies \ {b}
        /\ status' = "error"
        /\ intervals' = intervals \ {b.iv}
        /\ due' = due \ {b.iv}
        /\ UNCHANGED <<file, now, watcherTimer, logPosition, logPath,
                       pendingNonPvp, timers, starts, nStarts, inflight,
                       stoppedFence, log, reads>>

\* The stream of tick body b fails: the catch sends error, the cursor stays.
ReadFail ==
    \E b \in bodies :
        /\ b.pc = "read"
        /\ bodies' = bodies \ {b}
        /\ status' = "error"
        /\ UNCHANGED <<file, now, watcherTimer, intervals, due, logPosition,
                       logPath, pendingNonPvp, timers, starts, nStarts, inflight,
                       stoppedFence, log, reads>>

\* Mutant of ReportStatus: a 401 is signalled like any other failed status.
ReportStatus_401AsError(outcome) ==
    CASE outcome = "ok"  -> "connected"
      [] OTHER           -> "error"

\* The signal reportSlain and reportEarthquake send for a response: "ok" is a
\* 2xx status, "bad" another status, "throw" a transport failure.
ReportStatus(outcome) ==
    CASE outcome = "401" -> "invalid_key"
      [] outcome = "ok"  -> "connected"
      [] OTHER           -> "error"

\* The report that tick body b awaits settles; the loop goes on.
ReportDone(outcome) ==
    \E b \in bodies :
        /\ b.pc = "await"
        /\ status' = ReportStatus(outcome)
        /\ RunLoop(b, b.lines)
        /\ UNCHANGED <<file, now, watcherTimer, intervals, due, logPosition,
                       logPath, starts, nStarts, inflight, stoppedFence, reads>>

\* Mutant of TimeoutFire: the callback reports without deleting the entry.
TimeoutFire_KeepEntry ==
    \E t \in timers :
        /\ t.deadline <= now
        /\ timers' = timers \ {t}
        /\ log' = Append(log, LogEntry("post", t.match))
        /\ inflight' = inflight + 1
        /\ UNCHANGED <<file, now, watcherTimer, intervals, due, logPosition,
                       logPath, pendingNonPvp, starts, nStarts, bodies, status,
                       stoppedFence, reads>>

\* A correlation timeout fires: the entry of its key is deleted and the
\* buffered match is reported without being awaited.
TimeoutFire ==
    \E t \in timers :
        /\ t.deadline <= now
        /\ timers' = timers \ {t}
        /\ pendingNonPvp' = MapDelete(pendingNonPvp, t.key)
        /\ log' = Append(log, LogEntry("post", t.match))
        /\ inflight' = inflight + 1
        /\ UNCHANGED <<file, now, watcherTimer, intervals, due, logPosition,
                       logPath, starts, nStarts, bodies, status, stoppedFence,
                       reads>>

\* The response to a report sent by a timeout callback arrives.
TimerReportDone(outcome) ==
    /\ inflight > 0
    /\ inflight' = inflight - 1
    /\ status' = ReportStatus(outcome)
    /\ UNCHANGED <<file, now, watcherTimer, intervals, due, logPosition,
                       logPath, pendingNonPvp, timers, starts, nStarts, bodies,
                       stoppedFence, log, reads>>

\* -------------------------------------------------------------- clock
\* One polling period passes; every armed interval becomes due.  The clock
\* counts only the periods during which an interval or a timeout is armed:
\* with none armed nothing depends on how long the program waits.
Advance ==
    /\ now < MaxSteps * POLL_MS
    /\ intervals # {} \/ timers # {}
    /\ due = {}
    /\ \A t \in timers : t.deadline > now
    /\ now' = now + POLL_MS
    /\ due' = intervals
    /\ UNCHANGED <<file, watcherTimer, intervals, logPosition, logPath,
                   pendingNonPvp, timers, starts, nStarts, bodies, inflight,
                   status, stoppedFence, log, reads>>

\* ----------------------------------------------------- specifications
HealthOutcomes == {"ok", "bad", "throw"}
CredOutcomes   == {"ok", "401", "bad", "throw"}
ReportOutcomes == {"ok", "401", "bad", "throw"}

SlainOrPvp == {l \in LineKinds : l.type \in {"slain", "pvp"} /\ l.npc # <<"b">>}

\* One watch session at work: a single startWatching call whose preflight
\* succeeds, any stopWatching calls, the game appending lines, reports that
\* succeed.
Next ==
    \/ \E l \in LineKinds : AppendLine(l)
    \/ StopWatching
    \/ nStarts < WatchStarts /\ StartWatching(TRUE, TRUE)
    \/ HealthResponse("ok")
    \/ CredResponse("ok")
    \/ Advance
    \/ IntervalFire(TRUE)
    \/ ReadDone
    \/ ReportDone("ok")
    \/ TimeoutFire
    \/ TimerReportDone("ok")

Spec == Init /\ [][Next]_vars

\* The life cycle: startWatching calls that overlap, with every outcome of
\* the preflight, of the stat and the read of a tick and of a report, over a
\* log file that gets LifeLines kill lines.
NextLife ==
    \/ \E l \in SlainOrPvp : Len(file) < LifeLines /\ AppendLine(l)
    \/ StopWatching
    \/ \E cfgOk, statOk \in BOOLEAN : StartWatching(cfgOk, statOk)
    \/ \E o \in HealthOutcomes : HealthResponse(o)
    \/ \E o \in CredOutcomes : CredResponse(o)
    \/ Advance
    \/ \E statOk \in BOOLEAN : IntervalFire(statOk)
    \/ ReadDone
    \/ ReadFail
    \/ \E o \in ReportOutcomes : ReportDone(o)
    \/ TimeoutFire
    \/ \E o \in ReportOutcomes : TimerReportDone(o)

SpecLife == Init /\ [][NextLife]_vars

\* ======================================================= correlation
\* The history `log` holds, in order, every kill event handed to the
\* correlator ("hand"), every POST of a kill ("post"), every earthquake POST
\* ("eq") and every stopWatching that cleared a pending entry ("stop").
KeyOf(m) == normalizeForDedup(m.npcName)

IsHand(i, pvp) == log[i].op = "hand" /\ log[i].m.pvp = pvp

\* The places of the POSTs of match m.
Posts(m) == {p \in DOMAIN log : log[p].op = "post" /\ log[p].m = m}

\* The later kill events of the same key as the one handed at i.
LaterKills(i) ==
    {j \in DOMAIN log : j > i /\ log[j].op = "hand" /\ KeyOf(log[j].m) = KeyOf(log[i].m)}

\* The later stopWatching calls.
LaterStops(i) == {j \in DOMAIN log : j > i /\ log[j].op = "stop"}

\* Those of a set J of places that come before every POST of the event handed at i.
BeforePost(i, J) == {j \in J : \A p \in Posts(log[i].m) : j < p}

\* The non-PVP event handed at i is still buffered when the event at j is handed.
BufferedAt(i, j) ==
    /\ i < j
    /\ IsHand(i, 0)
    /\ \A k \in LaterKills(i) \cup LaterStops(i) \cup Posts(log[i].m) : k >= j

\* The timeout armed for the event handed at i.
TimeoutOf(i) ==
    [key |-> KeyOf(log[i].m), match |-> log[i].m, deadline |-> log[i].at + BUFFER_MS]

\* The event handed at i waits in the buffer, its timeout armed and not overdue.
Waiting(i) ==
    /\ Posts(log[i].m) = {}
    /\ TimeoutOf(i) \in timers
    /\ TimeoutOf(i).deadline >= now
    /\ KeyOf(log[i].m) \in DOMAIN pendingNonPvp
    /\ pendingNonPvp[KeyOf(log[i].m)] = [match |-> log[i].m, timeout |-> TimeoutOf(i)]

\* The event handed at i was POSTed exactly once, BUFFER_MS after it was handed.
PostedOnTime(i) ==
    \E p \in DOMAIN log :
        /\ Posts(log[i].m) = {p}
        /\ p > i
        /\ log[p].at = log[i].at + BUFFER_MS

\* C1: when a PVP kill of key K is handed to the correlator while a non-PVP
\* kill of K is buffered (its timeout has not fired), the buffered event is
\* never POSTed and the PVP event is POSTed exactly once, at once.
C1_PvpSupersedes ==
    \A i, j \in DOMAIN log :
        (BufferedAt(i, j) /\ IsHand(j, 1) /\ KeyOf(log[i].m) = KeyOf(log[j].m))
        => /\ Posts(log[i].m) = {}
           /\ Posts(log[j].m) = {j + 1}
           /\ \A t \in timers : t.match # log[i].m

\* The PVP kill came while the non-PVP one was buffered, and the clock has
\* reached the time the cancelled timeout was set for.
C1_Witness ==
    \E i, j \in DOMAIN log :
        /\ BufferedAt(i, j) /\ IsHand(j, 1)
        /\ KeyOf(log[i].m) = KeyOf(log[j].m)
        /\ log[i].m.npcName # log[j].m.npcName
        /\ now >= log[i].at + BUFFER_MS

\* C2 as stated: a buffered non-PVP kill of key K that no other kill of K
\* follows before its timeout fires is POSTed exactly once, BUFFER_MS after it
\* was handed, and the entry of K is then gone; until then it waits.
C2_Original ==
    \A i \in DOMAIN log :
        (IsHand(i, 0) /\ BeforePost(i, LaterKills(i)) = {})
        => \/ Waiting(i)
           \/ /\ PostedOnTime(i)
              /\ LaterKills(i) = {} => KeyOf(log[i].m) \notin DOMAIN pendingNonPvp

\* C2 as amended: the same, for a buffered event that neither another kill of
\* K nor a stopWatching follows before its timeout fires.
C2_Amended ==
    \A i \in DOMAIN log :
        (IsHand(i, 0) /\ BeforePost(i, LaterKills(i) \cup LaterStops(i)) = {})
        => \/ Waiting(i)
           \/ /\ PostedOnTime(i)
              /\ LaterKills(i) = {} => KeyOf(log[i].m) \notin DOMAIN pendingNonPvp

\* A non-PVP kill that nothing interfered with has been POSTed.
C2_Witness ==
    \E i \in DOMAIN log :
        /\ IsHand(i, 0)
        /\ LaterKills(i) \cup LaterStops(i) = {}
        /\ PostedOnTime(i)

\* C3 as stated: every non-PVP kill handed to the correlator that no PVP kill
\* of the same key follows is POSTed exactly once; stated for a finite run:
\* it has been POSTed once, or its timeout is still armed.
C3_Original ==
    \A i \in DOMAIN log :
        (IsHand(i, 0) /\ \A j \in LaterKills(i) : log[j].m.pvp = 0)
        => \/ Posts(log[i].m) = {} /\ TimeoutOf(i) \in timers
           \/ Cardinality(Posts(log[i].m)) = 1

\* C3 as amended: a non-PVP kill handed to the correlator is POSTed at most
\* once; it is never POSTed once a kill of the same key (PVP or not) or a
\* stopWatching has come before its timeout fired; otherwise it has been
\* POSTed once or its timeout is armed and not overdue.
C3_Amended ==
    \A i \in DOMAIN log :
        IsHand(i, 0)
        => /\ Cardinality(Posts(log[i].m)) <= 1
           /\ \A j \in LaterKills(i) \cup LaterStops(i) :
                  \A p \in Posts(log[i].m) : p < j
           /\ (LaterKills(i) \cup LaterStops(i) = {})
                  => (Waiting(i) \/ PostedOnTime(i))

\* A buffered non-PVP kill was dropped by stopWatching, and another one was
\* POSTed.
C3_Witness ==
    /\ \E i \in DOMAIN log :
          /\ IsHand(i, 0)
          /\ LaterStops(i) # {}
          /\ \A j \in LaterStops(i) : BufferedAt(i, j)
          /\ Posts(log[i].m) = {}
          /\ timers = {}
    /\ \E i \in DOMAIN log : IsHand(i, 0) /\ PostedOnTime(i)

\* C4 as stated: of two non-PVP kills of key K, the second handed while the
\* first is buffered, the first is never POSTed and the second is POSTed once,
\* BUFFER_MS after it was handed (until then it waits).
C4_Original ==
    \A i, j \in DOMAIN log :
        (BufferedAt(i, j) /\ IsHand(j, 0) /\ KeyOf(log[i].m) = KeyOf(log[j].m))
        => /\ Posts(log[i].m) = {}
           /\ \A t \in timers : t.match # log[i].m
           /\ Waiting(j) \/ PostedOnTime(j)

\* C4 as amended: the first is never POSTed; the second is POSTed once,
\* BUFFER_MS after it was handed, when neither a further kill of K nor a
\* stopWatching comes before its timeout fires.
C4_Amended ==
    \A i, j \in DOMAIN log :
        (BufferedAt(i, j) /\ IsHand(j, 0) /\ KeyOf(log[i].m) = KeyOf(log[j].m))
        => /\ Posts(log[i].m) = {}
           /\ \A t \in timers : t.match # log[i].m
           /\ Cardinality(Posts(log[j].m)) <= 1
           /\ (BeforePost(j, LaterKills(j) \cup LaterStops(j)) = {})
                  => (Waiting(j) \/ PostedOnTime(j))

\* Two non-PVP kills of one key handed one polling period apart, the second
\* POSTed BUFFER_MS after it was handed.
C4_Witness ==
    \E i, j \in DOMAIN log :
        /\ BufferedAt(i, j) /\ IsHand(j, 0)
        /\ KeyOf(log[i].m) = KeyOf(log[j].m)
        /\ log[j].at = log[i].at + POLL_MS
        /\ PostedOnTime(j)
        /\ Posts(log[i].m) = {}

\* C5: a PVP kill is never buffered and never waits on a timeout: every PVP
\* event handed to the correlator is POSTed in the same step, exactly once,
\* whatever came before or comes after.
C5_PvpImmediate ==
    /\ \A t \in timers : t.match.pvp = 0
    /\ \A k \in DOMAIN pendingNonPvp : pendingNonPvp[k].match.pvp = 0
    /\ \A i \in DOMAIN log :
          IsHand(i, 1)
          => /\ Posts(log[i].m) = {i + 1}
             /\ log[i + 1].at = log[i].at

\* A PVP kill was POSTed by a tick body that had first awaited another report
\* of the same delta.
C5_Witness ==
    \E i \in DOMAIN log :
        /\ IsHand(i, 1)
        /\ i > 1 /\ log[i - 1].op \in {"eq", "post"} /\ log[i - 1].m.src = log[i].m.src
        /\ Posts(log[i].m) = {i + 1}

\* ============================================================ tailer
\* C6: every read of a tick is exactly the range [cursor, size at stat), and
\* no byte is read by two ticks of one watch session.
C6_ReadOnce ==
    /\ \A r \in reads : r.hi = r.size - 1
    /\ \A r1, r2 \in reads :
          (r1 # r2 /\ r1.gen = r2.gen) => (r1.hi < r2.lo \/ r2.hi < r1.lo)

\* ======================================================== life cycle
\* C7: at most one polling task is armed, and an armed polling task is the
\* one watcherTimer holds, which stopWatching cancels.
C7_OneSession ==
    /\ Cardinality(intervals) <= 1
    /\ intervals \subseteq {watcherTimer}

\* C8, its part on the state a failed attempt leaves: when the last signal is
\* that of a failed preflight check, no polling task is armed and no watched
\* path is set.
C8_FailedAttemptArmsNothing ==
    status \in {"missing_config", "file_not_found", "server_offline"}
    => (intervals = {} /\ watcherTimer = NoTimer /\ logPath = NoPath)

\* C9: right after stopWatching no polling task and no correlation timeout is
\* armed, the pending map is empty, the watched path absent and the last
\* signal is stopped.
C9_AfterStop ==
    [][StopWatching => /\ intervals' = {}
                       /\ watcherTimer' = NoTimer
                       /\ timers' = {}
                       /\ pendingNonPvp' = EmptyMap
                       /\ logPath' = NoPath
                       /\ status' = "stopped"]_vars

\* C10: from stopWatching until the next startWatching call the last signal
\* stays stopped.
C10_StaysStopped == stoppedFence => status = "stopped"

\* ======================================================= concurrency
\* The tick bodies in progress: suspended on their stream or on a report.
InProgress == {b \in bodies : b.pc \in {"read", "await"}}

\* C11: poll tick bodies never overlap: at most one tick body is in progress,
\* so the body of a later tick does not begin reading while an earlier one
\* still reads or awaits a report.
C11_NoOverlap == Cardinality(InProgress) <= 1

\* ========================================================= reporting
\* One watch session whose reports meet every outcome: the lines of every
\* kind, each report of a tick body or of a timeout callback answered by a
\* 2xx status, a 401, another status or a transport failure.
NextReport ==
    \/ \E l \in LineKinds : AppendLine(l)
    \/ StopWatching
    \/ nStarts < WatchStarts /\ StartWatching(TRUE, TRUE)
    \/ HealthResponse("ok")
    \/ CredResponse("ok")
    \/ Advance
    \/ IntervalFire(TRUE)
    \/ ReadDone
    \/ \E o \in ReportOutcomes : ReportDone(o)
    \/ TimeoutFire
    \/ \E o \in ReportOutcomes : TimerReportDone(o)

SpecReport == Init /\ [][NextReport]_vars

\* The reports whose response is outstanding, and the POSTs issued so far.
Outstanding == Cardinality({b \in bodies : b.pc = "await"}) + inflight
NPosts == Cardinality({i \in DOMAIN log : log[i].op \in {"post", "eq"}})

\* A report of a tick body or of a timeout callback gets its response.
ReportSettles(o) == ReportDone(o) \/ TimerReportDone(o)

\* The signal the claim gives for an outcome.
C12_Signal(o) ==
    IF o = "ok" THEN "connected" ELSE IF o = "401" THEN "invalid_key" ELSE "error"

\* C12: each report issues one POST and sends one signal, fixed by its
\* outcome: connected for a 2xx status, invalid_key for 401, error for another
\* status or a transport failure; a failed report is not sent again.  Every
\* POST is matched by one response still outstanding or settled, the step
\* that settles a report leaves the signal of its outcome, and no match and
\* no earthquake line of a delta is POSTed twice.
C12_OneReportOneSignal ==
    /\ [](\A i, j \in DOMAIN log :
            (log[i].op \in {"post", "eq"} /\ log[i].op = log[j].op
             /\ log[i].m = log[j].m) => i = j)
    /\ [][\A o \in ReportOutcomes :
            ReportSettles(o)
            => /\ status' = C12_Signal(o)
               /\ NPosts' - NPosts = Outstanding' - Outstanding + 1]_vars
    /\ [][(~ \E o \in ReportOutcomes : ReportSettles(o))
            => NPosts' - NPosts = Outstanding' - Outstanding]_vars

\* A kill report and an earthquake report were sent, the last response was a
\* 401, and nothing is outstanding or armed that could send again.
C12_Witness ==
    /\ status = "invalid_key"
    /\ Outstanding = 0 /\ bodies = {} /\ timers = {}
    /\ \E i, j \in DOMAIN log : log[i].op = "post" /\ log[j].op = "eq"
    /\ NPosts = 2

\* ==================================================== error handling
\* A step in which a tick or a report fails: the stat of a tick throws, its
\* stream fails, or a report gets a 401, another failed status or no response.
TickOrReportFails ==
    \/ IntervalFire(FALSE)
    \/ ReadFail
    \/ \E o \in ReportOutcomes \ {"ok"} : ReportSettles(o)

\* A call of stopWatching, on its own or at the start of startWatching.
StopCalled == StopWatching \/ \E cfgOk, statOk \in BOOLEAN : StartWatching(cfgOk, statOk)

\* C13: no failure stops the polling loop: a step in which a tick or a report
\* fails leaves every armed polling task armed, watcherTimer and the watched
\* path as they were; an armed polling task is due again at every period; and
\* a polling task is cancelled by a call of stopWatching only.
C13_FailureKeepsPolling ==
    /\ [][TickOrReportFails
            => /\ intervals' = intervals
               /\ watcherTimer' = watcherTimer
               /\ logPath' = logPath]_vars
    /\ [][Advance => due' = intervals]_vars
    /\ [][(intervals \ intervals' # {}) => StopCalled]_vars

\* A tick of the one session failed on its stat or its stream before anything
\* was read, and the polling task is armed and due for another tick.
C13_Witness ==
    /\ nStarts = 1 /\ starts = {}
    /\ status = "error"
    /\ reads = {} /\ bodies = {}
    /\ intervals = {watcherTimer} /\ due = intervals
    /\ FileSize(file) > logPosition
    /\ now >= 2 * POLL_MS

\* ============================================================ restart
\* The first-person kill line of the NPC "G".
RestartLines == {l \in LineKinds : l.type = "slain" /\ l.npc = <<"G">>}

\* Watching restarted: startWatching calls one after another or overlapping,
\* each with a preflight that succeeds, stopWatching calls in between, over a
\* log file that grows by kill lines.
NextRestart ==
    \/ \E l \in RestartLines : AppendLine(l)
    \/ StopWatching
    \/ StartWatching(TRUE, TRUE)
    \/ HealthResponse("ok")
    \/ CredResponse("ok")
    \/ Advance
    \/ IntervalFire(TRUE)
    \/ ReadDone
    \/ TimeoutFire
    \/ TimerReportDone("ok")

SpecRestart == Init /\ [][NextRestart]_vars

\* C14: a startWatching call whose stat succeeds sets the cursor to the size
\* that stat returned, and the cursor never holds a value carried over from
\* the session before: while the preflight of the latest call is under way
\* the cursor is not below the size of its stat (so the new session reads no
\* byte located before that size).
C14_CursorAtStartSize ==
    \A s \in starts : s.id = nStarts => logPosition >= s.size

\* ================================================== correlation key
\* The characters of NPC names: the ones normalizeForDedup treats apart and
\* a letter in both cases.
NameChars == {"#", "_", " ", "G", "g"}

\* The names a kill line can carry: parseSlainLine returns a line's NPC
\* group trimmed, so a name of blanks only is left out here.
Names == {s \in UNION {[1..n -> NameChars] : n \in 1..MaxName} : Trim(s) # <<>>}

NamedLines == {[type |-> t, npc |-> s] : t \in {"slain", "pvp"}, s \in Names}

\* One watch session over a log file that gets one kill line, of any name.
NextKey ==
    \/ \E l \in NamedLines : Len(file) < LifeLines /\ AppendLine(l)
    \/ StopWatching
    \/ nStarts < WatchStarts /\ StartWatching(TRUE, TRUE)
    \/ HealthResponse("ok")
    \/ CredResponse("ok")
    \/ Advance
    \/ IntervalFire(TRUE)
    \/ ReadDone
    \/ ReportDone("ok")
    \/ TimeoutFire
    \/ TimerReportDone("ok")

SpecKey == Init /\ [][NextKey]_vars

\* C15: the correlation key is idempotent: the key of every kill handed to
\* the correlator is its own key, key(key(s)) = key(s).
C15_KeyIdempotent ==
    \A i \in DOMAIN log :
        log[i].op = "hand" => normalizeForDedup(KeyOf(log[i].m)) = KeyOf(log[i].m)

\* C16: from a stopWatching call until the next startWatching call no polling
\* task is armed by a preflight that was in flight, and no tick can start a
\* body: watcherTimer stays null and the watched path absent.
C16_NoTickAfterStop ==
    stoppedFence => (watcherTimer = NoTimer /\ logPath = NoPath)

\* C17: the armed correlation timeouts and the entries of the pending map
\* correspond one to one: the armed timeouts are exactly the ones the entries
\* hold, each entry holds the timeout armed for its own key and match, and no
\* two armed timeouts are for one key.
C17_TimersMatchEntries ==
    /\ timers = PendingTimeouts(pendingNonPvp)
    /\ \A k \in DOMAIN pendingNonPvp :
          /\ pendingNonPvp[k].timeout.key = k
          /\ pendingNonPvp[k].timeout.match = pendingNonPvp[k].match
    /\ \A t1, t2 \in timers : t1.key = t2.key => t1 = t2

\* The entry of a key was replaced by a second non-PVP kill: the one timeout
\* armed is the second kill's, held by the entry of the key.
C17_Witness ==
    \E i, j \in DOMAIN log :
        /\ BufferedAt(i, j) /\ IsHand(j, 0)
        /\ KeyOf(log[i].m) = KeyOf(log[j].m)
        /\ timers = {TimeoutOf(j)}
        /\ DOMAIN pendingNonPvp = {KeyOf(log[j].m)}
        /\ now > log[j].at

\* C18: while one file is watched the cursor never decreases: no step of a
\* tick (and no other step) lowers it.
C18_CursorMonotone == [][logPosition' >= logPosition]_vars

C20_FailedReadAdvances ==
    [][ReadFail => \E b \in bodies \ bodies' : b.pc = "read" /\ logPosition' >= b.end]_vars

\* ========================================================== dispatch
\* The lines of the dispatch specification: the line both parsers match, the
\* plain announcement, and the kill lines of "G" (first-person and PVP).
DispatchLines == {BothLine} \cup {l \in LineKinds : l.npc # <<"b">>}

\* One watch session over a log file of such lines.
NextDispatch ==
    \/ \E l \in DispatchLines : AppendLine(l)
    \/ StopWatching
    \/ nStarts < WatchStarts /\ StartWatching(TRUE, TRUE)
    \/ HealthResponse("ok")
    \/ CredResponse("ok")
    \/ Advance
    \/ IntervalFire(TRUE)
    \/ ReadDone
    \/ ReportDone("ok")
    \/ TimeoutFire
    \/ TimerReportDone("ok")

SpecDispatch == Init /\ [][NextDispatch]_vars

\* The earthquake POSTs of line j, and the reads that hold line j whole.
EqPosts(j) == {i \in DOMAIN log : log[i].op = "eq" /\ log[i].m.line = j}
ReadsOf(j) == {r \in reads : r.lo <= (j - 1) * LineLen /\ j * LineLen - 2 <= r.hi}

\* C21: a line the earthquake parse matches is reported as an announcement,
\* once by each tick body that read it, and is never handed to the correlator:
\* no kill event, no POST of a kill, no pending entry and no timeout comes
\* from it; only the other lines are tried as kill lines.
C21_EarthquakeFirst ==
    /\ \A i \in DOMAIN log :
          log[i].op \in {"hand", "post"} => ~LineIsEarthquake(file[log[i].m.line])
    /\ \A t \in timers : ~LineIsEarthquake(file[t.match.line])
    /\ \A k \in DOMAIN pendingNonPvp :
          ~LineIsEarthquake(file[pendingNonPvp[k].match.line])
    /\ \A i, j \in DOMAIN log :
          (log[i].op = "eq" /\ log[j].op = "eq" /\ log[i].m = log[j].m) => i = j
    /\ \A j \in DOMAIN file :
          /\ EqPosts(j) # {} => LineIsEarthquake(file[j])
          /\ (LineIsEarthquake(file[j]) /\ ReadsOf(j) # {} /\ bodies = {})
                => EqPosts(j) # {}

\* A line both parsers match was reported as an announcement while a non-PVP
\* kill of the same key was buffered, and the buffered kill was then POSTed
\* on time: the line neither replaced nor cancelled the entry.
C21_Witness ==
    \E i, e \in DOMAIN log :
        /\ IsHand(i, 0) /\ log[e].op = "eq" /\ i < e
        /\ file[log[e].m.line] = BothLine
        /\ KeyOf(log[i].m) = normalizeForDedup(Trim(BothLine.npc))
        /\ log[e].at < log[i].at + BUFFER_MS
        /\ PostedOnTime(i)

\* ============================================================ parsing
\* The characters of the text after "You have slain": a blank, a letter and
\* the full stop the pattern treats apart.
TailChars == {" ", "G", "."}

TextLines ==
    {[type |-> "text", npc |-> r] : r \in UNION {[1..n -> TailChars] : n \in 1..MaxTail}}

\* One watch session over a log file that gets one first-person kill line, of
\* any text.
NextParse ==
    \/ \E l \in TextLines : Len(file) < LifeLines /\ AppendLine(l)
    \/ StopWatching
    \/ nStarts < WatchStarts /\ StartWatching(TRUE, TRUE)
    \/ HealthResponse("ok")
    \/ CredResponse("ok")
    \/ Advance
    \/ IntervalFire(TRUE)
    \/ ReadDone
    \/ TimeoutFire
    \/ TimerReportDone("ok")

SpecParse == Init /\ [][NextParse]_vars

\* C22: every kill event handed to the correlator has a name that is not
\* empty after trimming, and a key that is not empty.
C22_NameNotEmpty ==
    \A i \in DOMAIN log :
        log[i].op = "hand"
        => (Trim(log[i].m.npcName) # <<>> /\ KeyOf(log[i].m) # <<>>)

\* ============================================================== frame
\* The keys of the kill events a step hands to the correlator.
HandedKeys ==
    {KeyOf(log'[i].m) : i \in {x \in (Len(log) + 1)..Len(log') : log'[x].op = "hand"}}

\* C23: a step of a tick body changes the pending map and the armed timeouts
\* only for the keys of the kill events it handles: for every other key the
\* entry, its buffered event and its timeout with its deadline are as before,
\* whether the events are PVP or non-PVP.
C23_FrameOtherKeys ==
    [][(ReadDone \/ ReportDone("ok"))
        => /\ \A k \in (DOMAIN pendingNonPvp \cup DOMAIN pendingNonPvp') \ HandedKeys :
                 /\ k \in DOMAIN pendingNonPvp /\ k \in DOMAIN pendingNonPvp'
                 /\ pendingNonPvp'[k] = pendingNonPvp[k]
           /\ {t \in timers' : t.key \notin HandedKeys}
                = {t \in timers : t.key \notin HandedKeys}]_vars

\* A kill of one key was handled by a later tick while a non-PVP kill of
\* another key was buffered, and the buffered one still waits with the
\* timeout armed when it was handed.
C23_Witness ==
    \E i, j \in DOMAIN log :
        /\ IsHand(i, 0) /\ log[j].op = "hand" /\ i < j
        /\ KeyOf(log[i].m) # KeyOf(log[j].m)
        /\ log[j].at > log[i].at
        /\ Waiting(i)

\* C24: from a stopWatching call until the next startWatching call the
\* pending map stays empty and no correlation timeout is armed, also when a
\* tick body that was suspended at the time of the call resumes afterwards.
\* Stated for the stops that left no polling task armed and no preflight in
\* flight, so that only a tick body begun before the call can still run.
C24_EmptyAfterStop ==
    (stoppedFence /\ intervals = {} /\ starts = {})
    => (pendingNonPvp = EmptyMap /\ timers = {})

====
